---- MODULE Spec2Model ----
(***************************************************************************)
(* Pixel-domain kernels of the libgav1 DSP backend:                        *)
(*   src/dsp/arm/distance_weighted_blend_neon.cc  (DistanceWeightedBlend)  *)
(*   src/dsp/x86/film_grain_sse4.cc               (film grain blending)    *)
(*                                                                         *)
(* A SIMD register is a sequence of lanes (1-based).  A plane is a         *)
(* function row -> column -> sample (0-based, as the pointers index it).   *)
(* Each kernel runs one loop iteration per step; y counts finished rows.   *)
(* The initializers of both files write the slots of the Dsp tables.      *)
(***************************************************************************)
EXTENDS Integers, Sequences, FiniteSets, TLC

VARIABLES
  kernel,          \* which kernel the call runs
  width, height,   \* the call's |width| and |height|
  y,               \* the row cursor of the kernel's outer loop
  dest,            \* the destination plane
  prediction_0, prediction_1,   \* DistanceWeightedBlend predictor planes
  weights,         \* <<weight_0, weight_1>> as passed to the call
  args,            \* film grain scalar arguments and FilmGrainParams
  scaling_lut,     \* scaling lookup table
  source_plane_y, source_plane_uv, noise_image,   \* film grain inputs
  loads,           \* highest source column loaded by the last row step
  dsp,             \* the Dsp tables: bit depth -> slot -> implementation
  events,          \* log of initializer calls, slot writes and lookups
  platform,        \* build configuration and CPU capabilities
  pc               \* position of the startup sequence

vars == <<kernel, width, height, y, dest, prediction_0, prediction_1, weights,
          args, scaling_lut, source_plane_y, source_plane_uv, noise_image,
          loads, dsp, events, platform, pc>>

----------------------------------------------------------------------------
(* Bounds of the model *)

\* Large blocks have width 16*k, k in 1..MaxLargeUnits.
MaxLargeUnits == 2
\* Large blocks have height 1..MaxLargeHeight.
MaxLargeHeight == 3
\* Number of predictor patterns per plane.
NumPredSeeds == 3
\* Film grain planes have width 1..MaxWidth and height 1..MaxHeight.
MaxWidth == 17
MaxHeight == 3
\* Number of film grain parameter variants (see GrainVariant).
NumVariants == 16

----------------------------------------------------------------------------
(* Fixed-width integer arithmetic of the vector lanes *)

\* A 16-bit lane read as signed (two's complement wrap).
WrapS16(v) == ((v + 32768) % 65536) - 32768

SatS16(v) == IF v < -32768 THEN -32768 ELSE IF v > 32767 THEN 32767 ELSE v

SatU8(v) == IF v < 0 THEN 0 ELSE IF v > 255 THEN 255 ELSE v

\* The destination sample value before the kernel stores anything.
Untouched == 0 - 1

\* Lanes [from, from+n) of a row as a register.
LoadLanes(row, from, n) == [i \in 1..n |-> row[from + i - 1]]

\* Store lanes lo..hi of |vec| at row[x], row[x+1], ...
StoreLanes(row, x, vec, lo, hi) ==
  [c \in DOMAIN row |->
     IF c >= x /\ c <= x + (hi - lo) THEN vec[lo + (c - x)] ELSE row[c]]

----------------------------------------------------------------------------
(* distance_weighted_blend_neon.cc *)

kInterPostRoundBit == 4

\* vmull_s16: widening multiply of two int16 lanes into a 32-bit lane.  The
\* product of two int16 values always fits 32 bits.
vmull_s16(a, b) == a * b

\* vmlal_s16: widening multiply-accumulate into a 32-bit lane.  With a uint8
\* weight in each factor the sum stays below 2^25 in magnitude, so the lane
\* never wraps.
vmlal_s16(acc, a, b) == acc + a * b

\* A narrowing shift that truncates instead of rounding (vqshrn_n_s32).
vqshrn_n_s32(v, n) == SatS16(v \div (2 ^ n))

\* vqrshrn_n_s32: rounding shift right by n, saturating narrow to int16.
vqrshrn_n_s32(v, n) == SatS16((v + 2 ^ (n - 1)) \div (2 ^ n))

\* vqmovun_s16: saturating narrow of a signed 16-bit lane to uint8.
vqmovun_s16(v) == SatU8(v)

\* Both weight registers filled from |weight_0|.
WeightVectorsSame(weight_0, weight_1) == <<weight_0, weight_0>>

\* int16x4_t weights[2] = {vdup_n_s16(weight_0), vdup_n_s16(weight_1)}
WeightVectors(weight_0, weight_1) == <<weight_0, weight_1>>

ComputeWeightedAverage8(pred0, pred1, w) ==
  [i \in 1..8 |->
     vqrshrn_n_s32(vmlal_s16(vmull_s16(w[1], pred0[i]), w[2], pred1[i]),
                   kInterPostRoundBit + 4)]

\* vcombine_s16 of two 4-lane halves.
vcombine(lo, hi) == lo \o hi

Narrow8(v) == [i \in 1..Len(v) |-> vqmovun_s16(v[i])]

\* One iteration (4 rows) of DistanceWeightedBlend4xH_NEON.
Blend4xHRows(p0, p1, w, dst, r) ==
  LET res01 == ComputeWeightedAverage8(
                 vcombine(LoadLanes(p0[r], 0, 4), LoadLanes(p0[r + 1], 0, 4)),
                 vcombine(LoadLanes(p1[r], 0, 4), LoadLanes(p1[r + 1], 0, 4)), w)
      res23 == ComputeWeightedAverage8(
                 vcombine(LoadLanes(p0[r + 2], 0, 4), LoadLanes(p0[r + 3], 0, 4)),
                 vcombine(LoadLanes(p1[r + 2], 0, 4), LoadLanes(p1[r + 3], 0, 4)), w)
      result_01 == Narrow8(res01)
      result_23 == Narrow8(res23)
  IN [q \in DOMAIN dst |->
        IF q = r THEN StoreLanes(dst[q], 0, result_01, 1, 4)
        ELSE IF q = r + 1 THEN StoreLanes(dst[q], 0, result_01, 5, 8)
        ELSE IF q = r + 2 THEN StoreLanes(dst[q], 0, result_23, 1, 4)
        ELSE IF q = r + 3 THEN StoreLanes(dst[q], 0, result_23, 5, 8)
        ELSE dst[q]]

\* One iteration (2 rows) of DistanceWeightedBlend8xH_NEON.
Blend8xHRows(p0, p1, w, dst, r) ==
  LET res0 == ComputeWeightedAverage8(LoadLanes(p0[r], 0, 8),
                                      LoadLanes(p1[r], 0, 8), w)
      res1 == ComputeWeightedAverage8(LoadLanes(p0[r + 1], 0, 8),
                                      LoadLanes(p1[r + 1], 0, 8), w)
  IN [q \in DOMAIN dst |->
        IF q = r THEN StoreLanes(dst[q], 0, Narrow8(res0), 1, 8)
        ELSE IF q = r + 1 THEN StoreLanes(dst[q], 0, Narrow8(res1), 1, 8)
        ELSE dst[q]]

\* The inner do-while of DistanceWeightedBlendLarge_NEON: 16 columns at x,
\* then x += 16 while x < w.
RECURSIVE BlendLargeRow(_, _, _, _, _, _)
BlendLargeRow(row0, row1, w, drow, x, wd) ==
  LET res_lo == ComputeWeightedAverage8(LoadLanes(row0, x, 8),
                                        LoadLanes(row1, x, 8), w)
      res_hi == ComputeWeightedAverage8(LoadLanes(row0, x + 8, 8),
                                        LoadLanes(row1, x + 8, 8), w)
      result == Narrow8(res_lo) \o Narrow8(res_hi)
      stored == StoreLanes(drow, x, result, 1, 16)
  IN IF x + 16 < wd THEN BlendLargeRow(row0, row1, w, stored, x + 16, wd)
     ELSE stored

----------------------------------------------------------------------------
(* The Dsp tables written by the initializers *)

Bitdepths == {8, 10}

\* The slots the initializers of the two files and their baseline
\* counterparts write: dsp->film_grain.blend_noise_luma,
\* dsp->film_grain.blend_noise_chroma[0..1], dsp->distance_weighted_blend.
Slots ==
  {"blend_noise_luma", "blend_noise_chroma[0]", "blend_noise_chroma[1]",
   "distance_weighted_blend"}

nullptr == "nullptr"

\* The tables before any initializer ran.
NullTable == [bd \in Bitdepths |-> [s \in Slots |-> nullptr]]

\* A direct kernel call involves no table.
DispatchIdle ==
  /\ dsp = NullTable
  /\ events = <<>>
  /\ platform = [targeting_sse4_1 |-> TRUE, enable_neon |-> TRUE,
                 max_bitdepth |-> 10, cpu |-> {"SSE4_1", "NEON"}]
  /\ pc = "any"

----------------------------------------------------------------------------
(* Inputs of DistanceWeightedBlend *)

\* Signed 16-bit predictor samples around the rounding and clipping edges.
PredSamples ==
  <<-32768, -4096, -129, -9, -8, -1, 0, 7, 8, 100, 200, 2040, 4071, 4072,
    4087, 4088, 32767>>

PredSample(k) == PredSamples[(k % Len(PredSamples)) + 1]

PredPlane0(seed, w, h) ==
  [r \in 0..(h - 1) |-> [c \in 0..(w - 1) |-> PredSample(5 * seed + c + 3 * r)]]

PredPlane1(seed, w, h) ==
  [r \in 0..(h - 1) |-> [c \in 0..(w - 1) |-> PredSample(7 * seed + 2 * c + r + 1)]]

\* The block sizes DistanceWeightedBlend_NEON supports.
BlockSizes ==
  {<<4, h>> : h \in {4, 8, 16}} \cup {<<8, h>> : h \in {4, 8, 16, 32}}
  \cup {<<16 * k, h>> : k \in 1..MaxLargeUnits, h \in 1..MaxLargeHeight}

IdleArgs == [bitdepth |-> 0]

BlankPlane(w, h) == [r \in 0..(h - 1) |-> [c \in 0..(w - 1) |-> Untouched]]

InitBlend ==
  \E bs \in BlockSizes, w0 \in 0..16,
     s0 \in 0..(NumPredSeeds - 1), s1 \in 0..(NumPredSeeds - 1) :
    /\ kernel = "DistanceWeightedBlend"
    /\ width = bs[1]
    /\ height = bs[2]
    /\ y = 0
    /\ weights = <<w0, 16 - w0>>
    /\ prediction_0 = PredPlane0(s0, bs[1], bs[2])
    /\ prediction_1 = PredPlane1(s1, bs[1], bs[2])
    /\ dest = BlankPlane(bs[1], bs[2])
    /\ args = IdleArgs
    /\ scaling_lut = <<>>
    /\ source_plane_y = <<>>
    /\ source_plane_uv = <<>>
    /\ noise_image = <<>>
    /\ loads = <<>>
    /\ DispatchIdle

UnchangedBlendInputs ==
  UNCHANGED <<dsp, events, platform, pc,
              kernel, width, height, prediction_0, prediction_1, weights,
              args, scaling_lut, source_plane_y, source_plane_uv,
              noise_image, loads>>

\* DistanceWeightedBlend_NEON, width == 4: one iteration of the 4xH loop.
DistanceWeightedBlend4xH_NEON ==
  /\ kernel = "DistanceWeightedBlend"
  /\ width = 4
  /\ y < height
  /\ dest' = Blend4xHRows(prediction_0, prediction_1,
                          WeightVectors(weights[1], weights[2]), dest, y)
  /\ y' = y + 4
  /\ UnchangedBlendInputs

\* DistanceWeightedBlend_NEON, width == 8: one iteration of the 8xH loop.
DistanceWeightedBlend8xH_NEON ==
  /\ kernel = "DistanceWeightedBlend"
  /\ width = 8
  /\ y < height
  /\ dest' = Blend8xHRows(prediction_0, prediction_1,
                          WeightVectors(weights[1], weights[2]), dest, y)
  /\ y' = y + 2
  /\ UnchangedBlendInputs

\* DistanceWeightedBlend_NEON, any other width: one row of the Large loop.
DistanceWeightedBlendLarge_NEON ==
  /\ kernel = "DistanceWeightedBlend"
  /\ width # 4
  /\ width # 8
  /\ y < height
  /\ dest' = [dest EXCEPT ![y] =
                BlendLargeRow(prediction_0[y], prediction_1[y],
                              WeightVectors(weights[1], weights[2]),
                              dest[y], 0, width)]
  /\ y' = y + 1
  /\ UnchangedBlendInputs

NextBlend ==
  \/ DistanceWeightedBlend4xH_NEON
  \/ DistanceWeightedBlend8xH_NEON
  \/ DistanceWeightedBlendLarge_NEON

SpecBlend == InitBlend /\ [][NextBlend]_vars

----------------------------------------------------------------------------
(* Claims about DistanceWeightedBlend *)

Clamp(v, lo, hi) == IF v < lo THEN lo ELSE IF v > hi THEN hi ELSE v

\* The blend of one sample pair as the codec defines it.
BlendSample(p0, p1, w0, w1) == Clamp((p0 * w0 + p1 * w1 + 128) \div 256, 0, 255)

\* C1: on every supported block, for every weight pair summing to 16, each
\* position of every finished row holds
\* clip((pred0*weight0 + pred1*weight1 + 128) >> 8, 0, 255) of the two
\* predictor samples at that position, whichever width path ran.
C1_BlendPerSample ==
  kernel = "DistanceWeightedBlend" =>
    \A r \in 0..(y - 1) : \A c \in 0..(width - 1) :
      dest[r][c] = BlendSample(prediction_0[r][c], prediction_1[r][c],
                               weights[1], weights[2])

\* C1 witness: a finished block with unequal weights whose output holds a
\* sample clipped at 0, one clipped at 255 and one strictly between.
C1_Witness ==
  /\ kernel = "DistanceWeightedBlend"
  /\ y = height
  /\ weights = <<9, 7>>
  /\ \E r \in 0..(height - 1) : \E c \in 0..(width - 1) :
        /\ dest[r][c] = 0
        /\ prediction_0[r][c] * 9 + prediction_1[r][c] * 7 + 128 < 0
  /\ \E r \in 0..(height - 1) : \E c \in 0..(width - 1) :
        /\ dest[r][c] = 255
        /\ (prediction_0[r][c] * 9 + prediction_1[r][c] * 7 + 128) \div 256 > 255
  /\ \E r \in 0..(height - 1) : \E c \in 0..(width - 1) :
        dest[r][c] \in 1..254

\* C3: with weights (16,0) every finished sample is predictor 0 rounded and
\* narrowed, clip((pred0*16 + 128) >> 8, 0, 255), whatever predictor 1 holds;
\* with weights (0,16) it is clip((pred1*16 + 128) >> 8, 0, 255), whatever
\* predictor 0 holds.
C3_DegenerateWeights ==
  kernel = "DistanceWeightedBlend" =>
    \A r \in 0..(y - 1) : \A c \in 0..(width - 1) :
      /\ weights = <<16, 0>> =>
           dest[r][c] = Clamp((prediction_0[r][c] * 16 + 128) \div 256, 0, 255)
      /\ weights = <<0, 16>> =>
           dest[r][c] = Clamp((prediction_1[r][c] * 16 + 128) \div 256, 0, 255)

\* C3 witness: a finished (16,0) block holding a sample whose predictor 1
\* value is large and differs from predictor 0, and an unclipped output.
C3_Witness ==
  /\ kernel = "DistanceWeightedBlend"
  /\ y = height
  /\ weights = <<16, 0>>
  /\ \E r \in 0..(height - 1) : \E c \in 0..(width - 1) :
        /\ prediction_1[r][c] = 32767
        /\ prediction_0[r][c] = 100
        /\ dest[r][c] = 6

----------------------------------------------------------------------------
(* film_grain_sse4.cc: lane arithmetic *)

\* _mm_add_epi16 / _mm_sub_epi16: wrapping 16-bit lanes.
mm_add_epi16(a, b) == WrapS16(a + b)

mm_sub_epi16(a, b) == WrapS16(a - b)

\* _mm_mulhi_epi16: the high 16 bits of the product, without rounding.
mm_mulhi_epi16(a, b) == WrapS16((a * b) \div 65536)

\* _mm_mulhrs_epi16: (((a * b) >> 14) + 1) >> 1 on signed 16-bit lanes.
mm_mulhrs_epi16(a, b) == WrapS16((((a * b) \div 16384) + 1) \div 2)

\* _mm_sll_epi16 / _mm_slli_epi16: left shift, bits above 15 are lost.
mm_sll_epi16(a, count) == IF count > 15 THEN 0 ELSE WrapS16(a * (2 ^ count))

\* _mm_srli_epi16: logical right shift of the lane read as unsigned.
mm_srli_epi16(a, count) == WrapS16((a % 65536) \div (2 ^ count))

mm_min_epi16(a, b) == IF a < b THEN a ELSE b

mm_max_epi16(a, b) == IF a > b THEN a ELSE b

\* _mm_packus_epi16: signed 16-bit lane saturated to uint8.
mm_packus_epi16(a) == SatU8(a)

\* _mm_packs_epi32: signed 32-bit lane saturated to int16.
mm_packs_epi32(a) == SatS16(a)

\* _mm_madd_epi16 on one 32-bit lane: a0*b0 + a1*b1.
mm_madd_epi16(a0, a1, b0, b1) == a0 * b0 + a1 * b1

\* _mm_srai_epi32: arithmetic right shift.
mm_srai_epi32(a, count) == a \div (2 ^ count)

\* RightShiftWithRounding_U16 (common_sse4.h): _mm_srli_epi16 by bits - 1,
\* then _mm_avg_epu16 with zero, which rounds in 17 bits: the lane 0xffff
\* gives 0x8000.
RightShiftWithRounding_U16(v, bits) ==
  WrapS16((((v % 65536) \div (2 ^ (bits - 1))) + 1) \div 2)

\* LoadSource: 8 samples from row[x..x+7], widened to 16-bit lanes.
LoadSource(row, x) == [i \in 1..8 |-> WrapS16(row[x + i - 1])]

\* The lane a store narrows to the pixel type: _mm_packus_epi16 for uint8,
\* the raw 16 bits for uint16.
StoredPixel(bitdepth, v) == IF bitdepth = 8 THEN mm_packus_epi16(v) ELSE v % 65536

\* A store of the whole 16-byte register _mm_packus_epi16(data, data)
\* instead of its low 8 bytes.
StoreUnsigned16Lanes(bitdepth, row, x, data) ==
  [c \in DOMAIN row |->
     IF c >= x /\ c < x + 16 THEN StoredPixel(bitdepth, data[((c - x) % 8) + 1])
     ELSE row[c]]

\* StoreUnsigned: all 8 lanes go to dest[x..x+7].
StoreUnsigned(bitdepth, row, x, data) ==
  [c \in DOMAIN row |->
     IF c >= x /\ c < x + 8 THEN StoredPixel(bitdepth, data[c - x + 1])
     ELSE row[c]]

\* GetAverageLuma whose shift drops the rounding bias.
GetAverageLumaTruncating(luma, at, subsampling_x) ==
  IF subsampling_x # 0
  THEN [i \in 1..8 |->
          WrapS16((luma[at + 2 * (i - 1)] + luma[at + 2 * (i - 1) + 1]) \div 2)]
  ELSE [i \in 1..8 |-> WrapS16(luma[at + (i - 1)])]

\* GetAverageLuma (both pixel overloads): _mm_hadd_epi16 of the 16 widened
\* samples then a rounding shift by 1; or the 8 samples themselves.
GetAverageLuma(luma, at, subsampling_x) ==
  IF subsampling_x # 0
  THEN [i \in 1..8 |->
          RightShiftWithRounding_U16(
            mm_add_epi16(WrapS16(luma[at + 2 * (i - 1)]),
                         WrapS16(luma[at + 2 * (i - 1) + 1])), 1)]
  ELSE [i \in 1..8 |-> WrapS16(luma[at + (i - 1)])]

\* Clip3 without the floor.
Clip3CeilingOnly(value, low, high) ==
  [i \in 1..8 |-> mm_min_epi16(high, value[i])]

\* Clip3: _mm_max_epi16(low, _mm_min_epi16(high, value)) per lane.
Clip3(value, low, high) ==
  [i \in 1..8 |-> mm_max_epi16(low, mm_min_epi16(high, value[i]))]

\* GetScalingFactors that truncates the interpolation instead of rounding.
GetScalingFactorsTrunc(bitdepth, lut, source) ==
  IF bitdepth = 8
  THEN [i \in 1..8 |-> lut[source[i]]]
  ELSE [i \in 1..8 |->
          LET index == source[i] \div 4
          IN lut[index] + ((lut[index + 1] - lut[index]) * (source[i] % 4)) \div 4]

\* GetScalingFactors<bitdepth, Pixel>; |source| is a register-sized window of
\* pixels (1-based lanes).
GetScalingFactors(bitdepth, lut, source) ==
  IF bitdepth = 8
  THEN [i \in 1..8 |-> lut[source[i]]]
  ELSE [i \in 1..8 |->
          LET index == source[i] \div 4
              start == lut[index]
              end == lut[index + 1]
              remainder == mm_srli_epi16(mm_sll_epi16(WrapS16(source[i]), 14), 1)
              delta == mm_mulhrs_epi16(mm_sub_epi16(end, start), remainder)
          IN mm_add_epi16(start, delta)]

\* ScaleNoise with the scale factor shifted by a fixed 7 bits.
ScaleNoiseFixedShift(noise, scaling, scaling_shift) ==
  [i \in 1..8 |-> mm_mulhrs_epi16(noise[i], mm_sll_epi16(scaling[i], 7))]

\* ScaleNoise; |scaling_shift| is the derived shift 15 - scaling_shift.
ScaleNoise(noise, scaling, scaling_shift) ==
  [i \in 1..8 |-> mm_mulhrs_epi16(noise[i], mm_sll_epi16(scaling[i], scaling_shift))]

VecAdd(a, b) == [i \in 1..8 |-> mm_add_epi16(a[i], b[i])]

\* An edge buffer without the duplicated last sample.
EdgeBufferNoDup(in_row, from, valid_range, last, size) ==
  [i \in 0..(size - 1) |-> IF i < valid_range THEN in_row[from + i] ELSE 0]

\* The scratch copy of the row tail: zeroed, |valid_range| samples copied
\* from in_row[from..], then the row's last valid sample appended.
EdgeBuffer(in_row, from, valid_range, last, size) ==
  [i \in 0..(size - 1) |->
     IF i < valid_range THEN in_row[from + i]
     ELSE IF i = valid_range THEN last ELSE 0]


----------------------------------------------------------------------------
(* film_grain_sse4.cc: the kernels, one row of the outer do-while each *)

\* A buffer (0-based) as a register.
AsLanes(buffer) == [i \in 1..8 |-> buffer[i - 1]]

\* width & ~7
SafeWidth(w) == (w \div 8) * 8

\* Loop body of BlendNoiseWithImageLuma_SSE4_1 at column x: |scaling_src| is
\* &in_y_row[x] in the main loop and luma_buffer at the right edge.
LumaBlendVals(a, lut, in_y_row, scaling_src, noise_row, x) ==
  LET orig == LoadSource(in_y_row, x)
      scaling == GetScalingFactors(a.bitdepth, lut, scaling_src)
      noise == ScaleNoise(LoadSource(noise_row, x), scaling, 15 - a.scaling_shift)
  IN Clip3(VecAdd(orig, noise), WrapS16(a.min_value), WrapS16(a.max_value))

\* One row of BlendNoiseWithImageLuma_SSE4_1: the main loop over
\* x < safe_width, then the right edge when x < width.
BlendNoiseWithImageLumaRow(a, lut, in_y_row, noise_row, out_y_row, wd) ==
  LET safe_width == SafeWidth(wd)
      main == [b \in 0..((safe_width \div 8) - 1) |->
                 LumaBlendVals(a, lut, in_y_row, LoadLanes(in_y_row, 8 * b, 8),
                               noise_row, 8 * b)]
      after_main == [c \in DOMAIN out_y_row |->
                       IF c < safe_width
                       THEN StoredPixel(a.bitdepth, main[c \div 8][(c % 8) + 1])
                       ELSE out_y_row[c]]
      valid_range == wd - safe_width
      luma_buffer == EdgeBuffer(in_y_row, safe_width, valid_range,
                                in_y_row[wd - 1], 8)
      edge == LumaBlendVals(a, lut, in_y_row, AsLanes(luma_buffer), noise_row,
                            safe_width)
  IN IF safe_width < wd
     THEN StoreUnsigned(a.bitdepth, after_main, safe_width, edge)
     ELSE after_main

\* BlendChromaValsWithCfl that looks the scale up at the chroma samples.
BlendChromaValsWithCflFromChroma(bitdepth, average_luma_buffer, lut, chroma_row, x, noise_row, scaling_shift) ==
  LET scaling == GetScalingFactors(bitdepth, lut, LoadLanes(chroma_row, x, 8))
      orig == LoadSource(chroma_row, x)
      noise == ScaleNoise(LoadSource(noise_row, x), scaling, scaling_shift)
  IN VecAdd(orig, noise)

\* BlendChromaValsWithCfl
BlendChromaValsWithCfl(bitdepth, average_luma_buffer, lut, chroma_row, x, noise_row, scaling_shift) ==
  LET scaling == GetScalingFactors(bitdepth, lut, average_luma_buffer)
      orig == LoadSource(chroma_row, x)
      noise == ScaleNoise(LoadSource(noise_row, x), scaling, scaling_shift)
  IN VecAdd(orig, noise)

\* StoreUnsigned(average_luma_buffer, average_luma)
AverageLumaBuffer(bitdepth, average_luma) ==
  [i \in 1..8 |-> StoredPixel(bitdepth, average_luma[i])]

ChromaWidth(a, wd) == (wd + a.subsampling_x) \div (2 ^ a.subsampling_x)

ChromaHeight(a, ht) == (ht + a.subsampling_y) \div (2 ^ a.subsampling_y)

\* in_y_row += source_stride_y << subsampling_y: the luma row of chroma row yy.
LumaRowOf(a, yy) == yy * (2 ^ a.subsampling_y)

\* start_height >>= subsampling_y; noise_image[y + start_height]
NoiseRowOf(a, yy) == yy + (a.start_height \div (2 ^ a.subsampling_y))

\* One row of BlendChromaPlaneWithCfl_SSE4_1.
BlendChromaPlaneWithCflRow(a, lut, in_y_row, in_chroma_row, noise_row, out_chroma_row, wd) ==
  LET chroma_width == ChromaWidth(a, wd)
      safe_chroma_width == SafeWidth(chroma_width)
      floor == WrapS16(a.min_value)
      ceiling == WrapS16(a.max_value)
      derived_scaling_shift == 15 - a.params.chroma_scaling
      main == [b \in 0..((safe_chroma_width \div 8) - 1) |->
                 LET x == 8 * b
                     luma_x == x * (2 ^ a.subsampling_x)
                     average_luma == GetAverageLuma(in_y_row, luma_x,
                                                    a.subsampling_x)
                 IN Clip3(BlendChromaValsWithCfl(
                            a.bitdepth,
                            AverageLumaBuffer(a.bitdepth, average_luma), lut,
                            in_chroma_row, x, noise_row, derived_scaling_shift),
                          floor, ceiling)]
      after_main == [c \in DOMAIN out_chroma_row |->
                       IF c < safe_chroma_width
                       THEN StoredPixel(a.bitdepth, main[c \div 8][(c % 8) + 1])
                       ELSE out_chroma_row[c]]
      x == safe_chroma_width
      luma_x == x * (2 ^ a.subsampling_x)
      valid_range == wd - luma_x
      luma_buffer == EdgeBuffer(in_y_row, luma_x, valid_range,
                                in_y_row[wd - 1], 16)
      average_luma == GetAverageLuma(luma_buffer, 0, a.subsampling_x)
      edge == Clip3(BlendChromaValsWithCfl(
                      a.bitdepth, AverageLumaBuffer(a.bitdepth, average_luma),
                      lut, in_chroma_row, x, noise_row, derived_scaling_shift),
                    floor, ceiling)
  IN IF x < chroma_width
     THEN StoreUnsigned(a.bitdepth, after_main, x, edge)
     ELSE after_main

\* BlendChromaValsNoCfl; |chroma| is read at chroma[cx..cx+7].
BlendChromaValsNoCfl(lut, chroma, cx, noise_row, x, average_luma, scaling_shift, offset, multipliers) ==
  LET orig == LoadSource(chroma, cx)
      merged_buffer ==
        [i \in 1..8 |->
           LET combined == mm_madd_epi16(average_luma[i], orig[i],
                                         multipliers[1], multipliers[2])
               merged_base == mm_packs_epi32(mm_srai_epi32(combined, 6))
               merged == mm_add_epi16(merged_base, offset)
           IN mm_packus_epi16(merged)]
      scaling == GetScalingFactors(8, lut, merged_buffer)
      noise == ScaleNoise(LoadSource(noise_row, x), scaling, scaling_shift)
  IN VecAdd(orig, noise)

\* chroma_buffer at the right edge: |valid_range_chroma| samples copied, the
\* last valid sample appended; the lanes after it are never written and keep
\* the bytes the stack held: lane i holds uninit[i + 1] (zero in an MSAN
\* build).
ChromaBuffer(in_chroma_row, x, valid_range_chroma, last, uninit) ==
  [i \in 0..7 |->
     IF i < valid_range_chroma THEN in_chroma_row[x + i]
     ELSE IF i = valid_range_chroma THEN last ELSE uninit[i + 1]]

\* The triple BlendNoiseWithImageChroma8bpp_SSE4_1 takes for V whatever the
\* plane.
PlaneTripleAlwaysV(plane, params) ==
  [offset |-> params.v_offset, luma_multiplier |-> params.v_luma_multiplier,
   multiplier |-> params.v_multiplier]

\* BlendNoiseWithImageChroma8bpp_SSE4_1: the {offset, luma_multiplier,
\* multiplier} triple of the plane.
PlaneTriple(plane, params) ==
  IF plane = "U"
  THEN [offset |-> params.u_offset,
        luma_multiplier |-> params.u_luma_multiplier,
        multiplier |-> params.u_multiplier]
  ELSE [offset |-> params.v_offset,
        luma_multiplier |-> params.v_luma_multiplier,
        multiplier |-> params.v_multiplier]

\* One row of BlendChromaPlane8bpp_SSE4_1.
BlendChromaPlane8bppRow(a, lut, in_y_row, in_chroma_row, noise_row, out_chroma_row, wd, uninit) ==
  LET t == PlaneTriple(a.plane, a.params)
      chroma_width == ChromaWidth(a, wd)
      safe_chroma_width == SafeWidth(chroma_width)
      floor == WrapS16(a.min_value)
      ceiling == WrapS16(a.max_value)
      offset == WrapS16(t.offset)
      multipliers == <<WrapS16(t.luma_multiplier), WrapS16(t.multiplier)>>
      derived_scaling_shift == 15 - a.params.chroma_scaling
      main == [b \in 0..((safe_chroma_width \div 8) - 1) |->
                 LET x == 8 * b
                     luma_x == x * (2 ^ a.subsampling_x)
                     average_luma == GetAverageLuma(in_y_row, luma_x,
                                                    a.subsampling_x)
                 IN Clip3(BlendChromaValsNoCfl(
                            lut, in_chroma_row, x, noise_row, x, average_luma,
                            derived_scaling_shift, offset, multipliers),
                          floor, ceiling)]
      after_main == [c \in DOMAIN out_chroma_row |->
                       IF c < safe_chroma_width
                       THEN StoredPixel(8, main[c \div 8][(c % 8) + 1])
                       ELSE out_chroma_row[c]]
      x == safe_chroma_width
      luma_x == x * (2 ^ a.subsampling_x)
      valid_range == wd - luma_x
      luma_buffer == EdgeBuffer(in_y_row, luma_x, valid_range,
                                in_y_row[wd - 1], 16)
      valid_range_chroma == chroma_width - x
      chroma_buffer == ChromaBuffer(in_chroma_row, x, valid_range_chroma,
                                    in_chroma_row[chroma_width - 1], uninit)
      average_luma == GetAverageLuma(luma_buffer, 0, a.subsampling_x)
      edge == Clip3(BlendChromaValsNoCfl(
                      lut, chroma_buffer, 0, noise_row, x, average_luma,
                      derived_scaling_shift, offset, multipliers),
                    floor, ceiling)
  IN IF x < chroma_width
     THEN StoreUnsigned(8, after_main, x, edge)
     ELSE after_main

\* Highest column of the luma source row a luma-kernel row step loads.
LumaKernelLoads(wd) ==
  [luma |-> IF SafeWidth(wd) < wd THEN SafeWidth(wd) + 7 ELSE wd - 1,
   chroma |-> 0 - 1]

\* Highest luma column GetAverageLuma / memcpy load in a chroma row step.
ChromaKernelLumaLoad(a, wd) ==
  LET chroma_width == ChromaWidth(a, wd)
      safe == SafeWidth(chroma_width)
      main_hi == IF safe = 0 THEN 0 - 1
                 ELSE ((safe - 8) * (2 ^ a.subsampling_x))
                      + (IF a.subsampling_x # 0 THEN 15 ELSE 7)
      edge_hi == IF safe < chroma_width THEN wd - 1 ELSE 0 - 1
  IN IF main_hi > edge_hi THEN main_hi ELSE edge_hi

\* Highest chroma source column a row step loads: the CFL kernel loads the
\* edge register from &in_chroma_row[x], the 8bpp kernel copies the valid
\* samples into chroma_buffer.
ChromaKernelLoads(a, wd, direct_edge_load) ==
  LET chroma_width == ChromaWidth(a, wd)
      safe == SafeWidth(chroma_width)
  IN [luma |-> ChromaKernelLumaLoad(a, wd),
      chroma |-> IF safe < chroma_width
                 THEN (IF direct_edge_load THEN safe + 7 ELSE chroma_width - 1)
                 ELSE chroma_width - 1]

----------------------------------------------------------------------------
(* Inputs of the film grain kernels *)

Pix8 == <<0, 1, 16, 17, 100, 127, 128, 200, 235, 254, 255>>

Pix10 == <<0, 1, 2, 3, 4, 64, 511, 512, 513, 514, 940, 1019, 1020, 1021,
           1022, 1023>>

Noise8 == <<-128, -127, -65, -64, -1, 0, 1, 2, 63, 64, 127>>

Noise10 == <<-512, -511, -257, -1, 0, 1, 3, 255, 256, 511>>

Pix(bitdepth, k) ==
  IF bitdepth = 8 THEN Pix8[(k % Len(Pix8)) + 1] ELSE Pix10[(k % Len(Pix10)) + 1]

Noise(bitdepth, k) ==
  IF bitdepth = 8 THEN Noise8[(k % Len(Noise8)) + 1]
  ELSE Noise10[(k % Len(Noise10)) + 1]

\* Row length of a plane of |w| valid columns: the rows are padded to a
\* multiple of 8 samples, and one further column follows.
Stride(w) == ((w + 7) \div 8) * 8 + 1

\* What the columns at or after the valid width hold: other pixels, or the
\* largest pixel value.
PadSample(pad, bitdepth, k) ==
  IF pad = 0 THEN Pix(bitdepth, k + 4) ELSE (2 ^ bitdepth) - 1

SourcePlane(bitdepth, seed, pad, w, h, kx, ky) ==
  [r \in 0..(h - 1) |->
     [c \in 0..(Stride(w) - 1) |->
        IF c < w THEN Pix(bitdepth, seed + kx * c + ky * r)
        ELSE PadSample(pad, bitdepth, seed + c + r)]]

NoisePlane(bitdepth, seed, w, rows) ==
  [r \in 0..(rows - 1) |->
     [c \in 0..(Stride(w) - 1) |-> Noise(bitdepth, seed + 4 * c + 3 * r)]]

\* Scaling tables: rising, falling and scattered bytes.  Entry 256 is the
\* byte after the 256 table entries that index + 1 reaches at 10-bit.
ScalingLut(kind) ==
  [i \in 0..256 |->
     IF kind = 0 THEN i % 256
     ELSE IF kind = 1 THEN 255 - (i % 256)
     ELSE (i * 37 + 11) % 256]

\* {offset, luma_multiplier, multiplier} triples: offset in [-256,255], the
\* multipliers in [-128,127].
Triples ==
  <<<<0, 0, 64>>, <<0, 64, 0>>, <<-256, 127, 127>>, <<255, -128, -128>>,
    <<17, -128, 127>>, <<-100, 32, 33>>>>

Subsamplings == {<<0, 0>>, <<1, 0>>, <<1, 1>>}

GrainShapes ==
  {<<"BlendNoiseWithImageLuma_SSE4_1", bd, 0, 0>> : bd \in {8, 10}}
  \cup {<<"BlendNoiseWithImageChromaWithCfl_SSE4_1", bd, ss[1], ss[2]>> :
          bd \in {8, 10}, ss \in Subsamplings}
  \cup {<<"BlendNoiseWithImageChroma8bpp_SSE4_1", 8, ss[1], ss[2]>> :
          ss \in Subsamplings}

\* The scalar arguments of variant v: every scaling_shift in [8,11], full and
\* narrow pixel ranges, both planes, start_height 0 and 2, every triple.
GrainVariant(shape, v) ==
  LET bd == shape[2]
      narrow == ((v \div 4) % 2) = 1
      top == (2 ^ bd) - 1
      tu == Triples[(v % Len(Triples)) + 1]
      tv == Triples[((v + 1) % Len(Triples)) + 1]
  IN [bitdepth |-> bd,
      min_value |-> IF narrow THEN 16 * (2 ^ (bd - 8)) ELSE 0,
      max_value |-> IF narrow THEN 235 * (2 ^ (bd - 8)) ELSE top,
      scaling_shift |-> 8 + (v % 4),
      start_height |-> 2 * ((v \div 2) % 2),
      subsampling_x |-> shape[3],
      subsampling_y |-> shape[4],
      plane |-> IF shape[1] = "BlendNoiseWithImageLuma_SSE4_1" THEN "Y"
                ELSE IF ((v \div 8) + v) % 2 = 0 THEN "U" ELSE "V",
      pad |-> (v \div 8) % 2,
      params |-> [chroma_scaling |-> 8 + (v % 4),
                  u_offset |-> tu[1], u_luma_multiplier |-> tu[2],
                  u_multiplier |-> tu[3],
                  v_offset |-> tv[1], v_luma_multiplier |-> tv[2],
                  v_multiplier |-> tv[3]]]

PlaneSeed(pl) == IF pl = "Y" THEN 0 ELSE IF pl = "U" THEN 3 ELSE 7

InitGrain ==
  \E shape \in GrainShapes, w \in 1..MaxWidth, h \in 1..MaxHeight,
     v \in 0..(NumVariants - 1) :
    LET a == GrainVariant(shape, v)
        is_luma == shape[1] = "BlendNoiseWithImageLuma_SSE4_1"
        pw == IF is_luma THEN w ELSE ChromaWidth(a, w)
        ph == IF is_luma THEN h ELSE ChromaHeight(a, h)
        noise_rows == ph + a.start_height
    IN /\ kernel = shape[1]
       /\ width = w
       /\ height = h
       /\ y = 0
       /\ args = a
       /\ scaling_lut = ScalingLut((v \div 2) % 3)
       /\ source_plane_y = SourcePlane(a.bitdepth, v, a.pad, w, h, 3, 5)
       /\ source_plane_uv =
            IF is_luma THEN <<>>
            ELSE SourcePlane(a.bitdepth, v + 2, a.pad, pw, ph, 7, 2)
       /\ noise_image =
            [pl \in {"Y", "U", "V"} |->
               NoisePlane(a.bitdepth, v + PlaneSeed(pl), pw, noise_rows)]
       /\ dest = BlankPlane(Stride(pw), ph)
       /\ prediction_0 = <<>>
       /\ prediction_1 = <<>>
       /\ weights = <<>>
       /\ loads = [luma |-> 0 - 1, chroma |-> 0 - 1]
       /\ DispatchIdle

UnchangedGrainInputs ==
  UNCHANGED <<dsp, events, platform, pc,
              kernel, width, height, prediction_0, prediction_1, weights,
              args, scaling_lut, source_plane_y, source_plane_uv, noise_image>>

\* Bytes an uninitialized chroma_buffer lane may hold.
UninitBytes == 0..255

\* The destination columns of a row that the right edge of
\* BlendChromaPlane8bpp_SSE4_1 computes from lanes of chroma_buffer it never
\* wrote: the stored columns after the duplicated last sample.
UninitColumns(a, wd) ==
  LET chroma_width == ChromaWidth(a, wd)
      safe_chroma_width == SafeWidth(chroma_width)
  IN IF safe_chroma_width < chroma_width
     THEN (chroma_width + 1)..(safe_chroma_width + 7)
     ELSE {}

\* chroma_buffer before the kernel writes it, holding |byte| in every lane.
StackFilled(byte) == [i \in 1..8 |-> byte]

\* BlendNoiseWithImageLuma_SSE4_1: one pass of the do-while over rows.
BlendNoiseWithImageLuma_SSE4_1 ==
  /\ kernel = "BlendNoiseWithImageLuma_SSE4_1"
  /\ y < height
  /\ dest' = [dest EXCEPT ![y] =
       BlendNoiseWithImageLumaRow(args, scaling_lut, source_plane_y[y],
                                  noise_image["Y"][y + args.start_height],
                                  dest[y], width)]
  /\ loads' = LumaKernelLoads(width)
  /\ y' = y + 1
  /\ UnchangedGrainInputs

\* BlendNoiseWithImageChromaWithCfl_SSE4_1: one pass of the do-while of
\* BlendChromaPlaneWithCfl_SSE4_1; the luma row advances by
\* source_stride_y << subsampling_y and start_height >>= subsampling_y.
BlendNoiseWithImageChromaWithCfl_SSE4_1 ==
  /\ kernel = "BlendNoiseWithImageChromaWithCfl_SSE4_1"
  /\ y < ChromaHeight(args, height)
  /\ dest' = [dest EXCEPT ![y] =
       BlendChromaPlaneWithCflRow(
         args, scaling_lut, source_plane_y[LumaRowOf(args, y)],
         source_plane_uv[y],
         noise_image[args.plane][NoiseRowOf(args, y)],
         dest[y], width)]
  /\ loads' = ChromaKernelLoads(args, width, TRUE)
  /\ y' = y + 1
  /\ UnchangedGrainInputs

\* BlendNoiseWithImageChroma8bpp_SSE4_1: one pass of the do-while of
\* BlendChromaPlane8bpp_SSE4_1.  A never-written lane of chroma_buffer holds
\* any byte, each lane its own, and every lane of the register is computed
\* from its own lane of chroma_buffer alone; the rows the step can store are
\* therefore the combinations of the values each of these columns can take.
\* The cell of such a column holds the set of the values the step can store
\* in it, one per byte of UninitBytes; every other cell holds its value.
BlendNoiseWithImageChroma8bpp_SSE4_1 ==
  /\ kernel = "BlendNoiseWithImageChroma8bpp_SSE4_1"
  /\ y < ChromaHeight(args, height)
  /\ LET stored(uninit) ==
           BlendChromaPlane8bppRow(
             args, scaling_lut, source_plane_y[LumaRowOf(args, y)],
             source_plane_uv[y],
             noise_image[args.plane][NoiseRowOf(args, y)],
             dest[y], width, uninit)
     IN dest' = [dest EXCEPT ![y] =
          [c \in DOMAIN dest[y] |->
             IF c \in UninitColumns(args, width)
             THEN {stored(StackFilled(byte))[c] : byte \in UninitBytes}
             ELSE stored(StackFilled(0))[c]]]
  /\ loads' = ChromaKernelLoads(args, width, FALSE)
  /\ y' = y + 1
  /\ UnchangedGrainInputs

NextGrain ==
  \/ BlendNoiseWithImageLuma_SSE4_1
  \/ BlendNoiseWithImageChromaWithCfl_SSE4_1
  \/ BlendNoiseWithImageChroma8bpp_SSE4_1

SpecGrain == InitGrain /\ [][NextGrain]_vars

----------------------------------------------------------------------------
(* GetScalingFactors and GetAverageLuma applied to one register of samples *)

\* Every window of 8 consecutive sample values of the bit depth.
InitGetScalingFactors ==
  \E bd \in {8, 10}, kind \in 0..2 :
    \E o \in 0..(((2 ^ bd) \div 8) - 1) :
      /\ kernel = "GetScalingFactors"
      /\ args = [bitdepth |-> bd, subsampling_x |-> 0]
      /\ scaling_lut = ScalingLut(kind)
      /\ source_plane_y = [r \in {0} |-> [c \in 0..7 |-> 8 * o + c]]

\* 16 luma samples of the bit depth: constant, consecutive and strided runs
\* through the sample lists.
InitGetAverageLuma ==
  \E bd \in {8, 10}, ssx \in {0, 1}, o \in 0..15, k \in {0, 1, 3} :
    /\ kernel = "GetAverageLuma"
    /\ args = [bitdepth |-> bd, subsampling_x |-> ssx]
    /\ scaling_lut = <<>>
    /\ source_plane_y = [r \in {0} |-> [c \in 0..15 |-> Pix(bd, o + k * c)]]

InitFn ==
  /\ InitGetScalingFactors \/ InitGetAverageLuma
  /\ width = 8
  /\ height = 1
  /\ y = 0
  /\ dest = BlankPlane(8, 1)
  /\ source_plane_uv = <<>>
  /\ noise_image = <<>>
  /\ prediction_0 = <<>>
  /\ prediction_1 = <<>>
  /\ weights = <<>>
  /\ loads = <<>>
  /\ DispatchIdle

UnchangedFnInputs ==
  UNCHANGED <<dsp, events, platform, pc,
              kernel, width, height, prediction_0, prediction_1, weights,
              args, scaling_lut, source_plane_y, source_plane_uv, noise_image,
              loads>>

\* A call of GetScalingFactors<bitdepth, Pixel>(scaling_lut, source).
GetScalingFactorsCall ==
  /\ kernel = "GetScalingFactors"
  /\ y = 0
  /\ dest' = [dest EXCEPT ![0] =
       StoreLanes(dest[0], 0,
                  GetScalingFactors(args.bitdepth, scaling_lut,
                                    LoadLanes(source_plane_y[0], 0, 8)), 1, 8)]
  /\ y' = 1
  /\ UnchangedFnInputs

\* A call of GetAverageLuma(luma, subsampling_x).
GetAverageLumaCall ==
  /\ kernel = "GetAverageLuma"
  /\ y = 0
  /\ dest' = [dest EXCEPT ![0] =
       StoreLanes(dest[0], 0,
                  GetAverageLuma(source_plane_y[0], 0, args.subsampling_x), 1, 8)]
  /\ y' = 1
  /\ UnchangedFnInputs

NextFn == GetScalingFactorsCall \/ GetAverageLumaCall

SpecFn == InitFn /\ [][NextFn]_vars

----------------------------------------------------------------------------
(* All kernels *)

Init == InitBlend \/ InitGrain

Next == NextBlend \/ NextGrain

Spec == Init /\ [][Next]_vars

----------------------------------------------------------------------------
(* Claims about the film grain kernels *)

GrainKernels ==
  {"BlendNoiseWithImageLuma_SSE4_1", "BlendNoiseWithImageChromaWithCfl_SSE4_1",
   "BlendNoiseWithImageChroma8bpp_SSE4_1"}

\* Width and height of the plane the running grain kernel writes.
PlaneWidth ==
  IF kernel = "BlendNoiseWithImageLuma_SSE4_1" THEN width
  ELSE ChromaWidth(args, width)

PlaneHeight ==
  IF kernel = "BlendNoiseWithImageLuma_SSE4_1" THEN height
  ELSE ChromaHeight(args, height)

RoundUp8(w) == ((w + 7) \div 8) * 8

\* The values the destination cell may hold: one value, except in the
\* columns a finished row of BlendChromaPlane8bpp_SSE4_1 computed from
\* never-written lanes of chroma_buffer.
CellValues(r, c) ==
  IF /\ kernel = "BlendNoiseWithImageChroma8bpp_SSE4_1"
     /\ r < y
     /\ c \in UninitColumns(args, width)
  THEN dest[r][c]
  ELSE {dest[r][c]}

\* round_multiply(a, b) = (a*b + 2^14) >> 15
RoundMultiply(a, b) == (a * b + 16384) \div 32768

\* n/d rounded to the nearest integer, halves up.
RoundHalfUp(n, d) == (2 * n + d) \div (2 * d)

\* The scaling-factor evaluator of 4.2 on one sample.
LutAt(bitdepth, lut, sample) ==
  IF bitdepth = 8 THEN lut[sample]
  ELSE LET start == lut[sample \div 4]
           end == lut[(sample \div 4) + 1]
       IN start + RoundHalfUp((end - start) * (sample % 4), 4)

\* clip(sample + round_multiply(noise, scale << (15 - scaling_shift)), lo, hi)
GrainSample(sample, noise, scale, scaling_shift, lo, hi) ==
  Clamp(sample + RoundMultiply(noise, scale * (2 ^ (15 - scaling_shift))), lo, hi)

\* C4: every valid column of every finished luma row holds
\* clip(source + round_multiply(noise[y + start_height][x],
\*      LUT(source) << (15 - scaling_shift)), min, max), the LUT evaluated at
\* the source sample itself.
C4_LumaPerSample ==
  kernel = "BlendNoiseWithImageLuma_SSE4_1" =>
    \A r \in 0..(y - 1) : \A c \in 0..(width - 1) :
      dest[r][c] =
        GrainSample(source_plane_y[r][c],
                    noise_image["Y"][r + args.start_height][c],
                    LutAt(args.bitdepth, scaling_lut, source_plane_y[r][c]),
                    args.scaling_shift, args.min_value, args.max_value)

\* C4 witness: a finished 10-bit luma plane with a main loop and a right
\* edge, start_height 2, whose right edge holds a sample clipped at max_value
\* or min_value and one changed by the noise but not clipped.
C4_Witness ==
  /\ kernel = "BlendNoiseWithImageLuma_SSE4_1"
  /\ y = height
  /\ height > 1
  /\ args.bitdepth = 10
  /\ args.start_height = 2
  /\ width > 8
  /\ width % 8 # 0
  /\ \E r \in 0..(height - 1) : \E c \in 8..(width - 1) :
        /\ dest[r][c] \in {args.min_value, args.max_value}
        /\ dest[r][c] # source_plane_y[r][c]
  /\ \E r \in 0..(height - 1) : \E c \in 8..(width - 1) :
        /\ dest[r][c] # source_plane_y[r][c]
        /\ dest[r][c] > args.min_value
        /\ dest[r][c] < args.max_value

\* C5: at bit depth 8 each lane of GetScalingFactors is LUT[sample]; at bit
\* depth 10 it is start + round((end - start) * (sample & 3) / 4), halves
\* up, with start = LUT[sample >> 2] and end = LUT[(sample >> 2) + 1], hence
\* exactly LUT[sample >> 2] when sample % 4 = 0.
C5_ScalingFactors ==
  (kernel = "GetScalingFactors" /\ y = 1) =>
    \A i \in 0..7 :
      LET sample == source_plane_y[0][i]
          start == scaling_lut[sample \div 4]
          end == scaling_lut[(sample \div 4) + 1]
      IN /\ args.bitdepth = 8 => dest[0][i] = scaling_lut[sample]
         /\ args.bitdepth # 8 =>
              /\ dest[0][i] = start + RoundHalfUp((end - start) * (sample % 4), 4)
              /\ sample % 4 = 0 => dest[0][i] = start

\* C5 witness: a 10-bit call where one lane sits on a quantized boundary
\* with a different next entry, and another interpolates a falling pair of
\* entries with an exact half to round.
C5_Witness ==
  /\ kernel = "GetScalingFactors"
  /\ y = 1
  /\ args.bitdepth = 10
  /\ \E i \in 0..7 :
        LET sample == source_plane_y[0][i]
        IN /\ sample % 4 = 0
           /\ scaling_lut[(sample \div 4) + 1] # scaling_lut[sample \div 4]
           /\ dest[0][i] = scaling_lut[sample \div 4]
  /\ \E i \in 0..7 :
        LET sample == source_plane_y[0][i]
            delta == scaling_lut[(sample \div 4) + 1] - scaling_lut[sample \div 4]
        IN /\ sample % 4 = 2
           /\ delta < 0
           /\ delta % 2 # 0
           /\ dest[0][i] = scaling_lut[sample \div 4] + ((delta + 1) \div 2)

\* C6: with subsampling_x = 1 lane x of GetAverageLuma is
\* (luma[2x] + luma[2x+1] + 1) >> 1, with subsampling_x = 0 it is luma[x],
\* for the 8-bit and the 16-bit pixel overload.
C6_AverageLuma ==
  (kernel = "GetAverageLuma" /\ y = 1) =>
    \A x \in 0..7 :
      dest[0][x] =
        IF args.subsampling_x = 1
        THEN (source_plane_y[0][2 * x] + source_plane_y[0][2 * x + 1] + 1) \div 2
        ELSE source_plane_y[0][x]

\* C6 witness: a subsampled 16-bit call with a pair whose sum is odd (the
\* rounding bias decides the lane) and the pair of the two largest samples.
C6_Witness ==
  /\ kernel = "GetAverageLuma"
  /\ y = 1
  /\ args.subsampling_x = 1
  /\ args.bitdepth = 10
  /\ \E x \in 0..7 :
        /\ (source_plane_y[0][2 * x] + source_plane_y[0][2 * x + 1]) % 2 = 1
        /\ 2 * dest[0][x] = source_plane_y[0][2 * x] + source_plane_y[0][2 * x + 1] + 1
  /\ \E x \in 0..7 :
        /\ source_plane_y[0][2 * x] = 1022
        /\ source_plane_y[0][2 * x + 1] = 1023
        /\ dest[0][x] = 1023

\* average_luma of chroma column c of a row.  Where the second luma sample
\* of the pair lies at the valid width (odd width, last chroma column) the
\* pair is completed either by the duplicated last sample or by the sample
\* stored after it; C13 is about which.
AverageLumaCandidates(luma_row, c, subsampling_x, wd) ==
  IF subsampling_x = 0 THEN {luma_row[c]}
  ELSE IF 2 * c + 1 < wd
       THEN {(luma_row[2 * c] + luma_row[2 * c + 1] + 1) \div 2}
       ELSE {luma_row[wd - 1], (luma_row[wd - 1] + luma_row[wd] + 1) \div 2}

\* merged = clip(((average_luma * luma_multiplier
\*                 + chroma * chroma_multiplier) >> 6) + chroma_offset, 0, 255)
Merged(average_luma, chroma, t) ==
  Clamp(((average_luma * t.luma_multiplier + chroma * t.multiplier) \div 64)
        + t.offset, 0, 255)

\* The triple of the call's plane, read from FilmGrainParams.
TripleOf(plane, params) ==
  IF plane = "U"
  THEN [offset |-> params.u_offset,
        luma_multiplier |-> params.u_luma_multiplier,
        multiplier |-> params.u_multiplier]
  ELSE [offset |-> params.v_offset,
        luma_multiplier |-> params.v_luma_multiplier,
        multiplier |-> params.v_multiplier]

\* C7: in the 8-bit multiplier-mode chroma kernel every valid chroma sample
\* of a finished row is clip(chroma + scaled noise, min, max) with the LUT
\* indexed by merged = clip(((average_luma * luma_multiplier
\* + chroma * chroma_multiplier) >> 6) + chroma_offset, 0, 255), the shift
\* arithmetic and the triple that of the plane (U or V).
C7_MultiplierMode ==
  kernel = "BlendNoiseWithImageChroma8bpp_SSE4_1" =>
    \A r \in 0..(y - 1) : \A c \in 0..(ChromaWidth(args, width) - 1) :
      \E average_luma \in
           AverageLumaCandidates(source_plane_y[r * (2 ^ args.subsampling_y)],
                                 c, args.subsampling_x, width) :
        dest[r][c] =
          GrainSample(source_plane_uv[r][c],
                      noise_image[args.plane]
                        [r + (args.start_height \div (2 ^ args.subsampling_y))][c],
                      scaling_lut[Merged(average_luma, source_plane_uv[r][c],
                                         TripleOf(args.plane, args.params))],
                      args.params.chroma_scaling, args.min_value, args.max_value)

\* C7 witness: a finished V plane whose U and V triples differ, with a
\* sample whose weighted sum is negative and not a multiple of 64 (the
\* arithmetic shift decides merged), whose merged index is not the chroma
\* sample and selects a different scale factor.
C7_Witness ==
  /\ kernel = "BlendNoiseWithImageChroma8bpp_SSE4_1"
  /\ y = ChromaHeight(args, height)
  /\ args.plane = "V"
  /\ TripleOf("U", args.params) # TripleOf("V", args.params)
  /\ \E r \in 0..(y - 1) : \E c \in 0..(ChromaWidth(args, width) - 1) :
        LET t == TripleOf("V", args.params)
            chroma == source_plane_uv[r][c]
            luma_row == source_plane_y[r * (2 ^ args.subsampling_y)]
            avg == IF args.subsampling_x = 0 THEN luma_row[c]
                   ELSE (luma_row[2 * c] + luma_row[2 * c + 1] + 1) \div 2
            sum == avg * t.luma_multiplier + chroma * t.multiplier
        IN /\ 2 * c + 1 < width
           /\ sum < 0
           /\ sum % 64 # 0
           /\ (sum \div 64) + t.offset \in 1..254
           /\ Merged(avg, chroma, t) # chroma
           /\ scaling_lut[Merged(avg, chroma, t)] # scaling_lut[chroma]
           /\ dest[r][c] # chroma

\* C8: in the CFL chroma kernel every valid chroma sample of every chroma
\* row y < (height + subsampling_y) >> subsampling_y is
\* clip(chroma[y][x] + scaled noise, min, max), the scale factor being the
\* LUT evaluated at average_luma of luma row y << subsampling_y and the
\* noise sample noise[plane][y + (start_height >> subsampling_y)][x].
C8_CflMode ==
  kernel = "BlendNoiseWithImageChromaWithCfl_SSE4_1" =>
    /\ y <= (height + args.subsampling_y) \div (2 ^ args.subsampling_y)
    /\ \A r \in 0..(y - 1) : \A c \in 0..(ChromaWidth(args, width) - 1) :
         \E average_luma \in
              AverageLumaCandidates(source_plane_y[r * (2 ^ args.subsampling_y)],
                                    c, args.subsampling_x, width) :
           dest[r][c] =
             GrainSample(source_plane_uv[r][c],
                         noise_image[args.plane]
                           [r + (args.start_height \div (2 ^ args.subsampling_y))][c],
                         LutAt(args.bitdepth, scaling_lut, average_luma),
                         args.params.chroma_scaling, args.min_value,
                         args.max_value)

\* C8 witness: a finished 4:2:0 plane of two chroma rows, start_height 2,
\* whose second row holds a sample that the LUT at average_luma and the LUT
\* at the chroma sample would scale differently.
C8_Witness ==
  /\ kernel = "BlendNoiseWithImageChromaWithCfl_SSE4_1"
  /\ args.subsampling_x = 1
  /\ args.subsampling_y = 1
  /\ args.start_height = 2
  /\ height = 3
  /\ y = 2
  /\ \E c \in 0..(ChromaWidth(args, width) - 1) :
        LET luma_row == source_plane_y[2]
            avg == (luma_row[2 * c] + luma_row[2 * c + 1] + 1) \div 2
            chroma == source_plane_uv[1][c]
        IN /\ 2 * c + 1 < width
           /\ dest[1][c] # chroma
           /\ dest[1][c] #
                GrainSample(chroma, noise_image[args.plane][2][c],
                            LutAt(args.bitdepth, scaling_lut, chroma),
                            args.params.chroma_scaling, args.min_value,
                            args.max_value)

\* The per-sample scalar loop over the valid columns only: average_luma of
\* chroma column c takes luma[2c] and luma[min(2c + 1, width - 1)].
ScalarAverageLuma(luma_row, c, subsampling_x, wd) ==
  IF subsampling_x = 0 THEN luma_row[c]
  ELSE LET next == IF 2 * c + 1 < wd THEN 2 * c + 1 ELSE wd - 1
       IN (luma_row[2 * c] + luma_row[next] + 1) \div 2

\* The scalar loop's output at row r, column c of the running kernel.
ScalarGrain(r, c) ==
  IF kernel = "BlendNoiseWithImageLuma_SSE4_1"
  THEN GrainSample(source_plane_y[r][c],
                   noise_image["Y"][r + args.start_height][c],
                   LutAt(args.bitdepth, scaling_lut, source_plane_y[r][c]),
                   args.scaling_shift, args.min_value, args.max_value)
  ELSE
    LET average_luma ==
          ScalarAverageLuma(source_plane_y[r * (2 ^ args.subsampling_y)], c,
                            args.subsampling_x, width)
        chroma == source_plane_uv[r][c]
        noise == noise_image[args.plane]
                   [r + (args.start_height \div (2 ^ args.subsampling_y))][c]
        scale == IF kernel = "BlendNoiseWithImageChromaWithCfl_SSE4_1"
                 THEN LutAt(args.bitdepth, scaling_lut, average_luma)
                 ELSE scaling_lut[Merged(average_luma, chroma,
                                         TripleOf(args.plane, args.params))]
    IN GrainSample(chroma, noise, scale, args.params.chroma_scaling,
                   args.min_value, args.max_value)

\* C9: when the width of the written plane (the chroma width for the chroma
\* kernels) is not a multiple of 8, every valid column of every finished row
\* of the luma kernel and of both chroma kernels holds what the per-sample
\* scalar loop over the valid columns computes; the scalar loop reads no
\* padding and no sample outside the valid columns, so neither does a valid
\* output depend on one.
C9_RightEdgeMatchesScalar ==
  (kernel \in GrainKernels /\ PlaneWidth % 8 # 0) =>
    \A r \in 0..(y - 1) : \A c \in 0..(PlaneWidth - 1) :
      dest[r][c] = ScalarGrain(r, c)

\* C9 witness: a finished chroma row of odd luma width whose last chroma
\* column is handled by the right edge, where the sample stored after the
\* last valid luma sample differs from it and the stored output has been
\* changed by the noise.
C9_Witness ==
  /\ kernel = "BlendNoiseWithImageChroma8bpp_SSE4_1"
  /\ args.subsampling_x = 1
  /\ width % 2 = 1
  /\ width > 16
  /\ PlaneWidth % 8 # 0
  /\ y = PlaneHeight
  /\ source_plane_y[0][width] # source_plane_y[0][width - 1]
  /\ source_plane_uv[0][PlaneWidth] # source_plane_uv[0][PlaneWidth - 1]
  /\ dest[0][PlaneWidth - 1] # source_plane_uv[0][PlaneWidth - 1]
  /\ dest[0][PlaneWidth - 1] = ScalarGrain(0, PlaneWidth - 1)

\* C10 as stated: at the right edge only the valid portion is stored, so
\* every destination sample at a column >= width (chroma width for chroma)
\* is unchanged, and no source-plane sample at a column >= width is loaded.
C10_OnlyValidColumnsTouched ==
  kernel \in GrainKernels =>
    /\ \A r \in DOMAIN dest : \A c \in DOMAIN dest[r] :
         c >= PlaneWidth => CellValues(r, c) = {Untouched}
    /\ loads.luma < width
    /\ loads.chroma < PlaneWidth

\* C10 amended: the right edge stores the whole 8-lane register.  Every
\* destination sample at a column at or after the width rounded up to 8 is
\* unchanged, as is every row not yet reached; the columns from the width up
\* to that boundary are overwritten in every finished row, with values in
\* [min_value, max_value]; no source sample at or after the rounded width is
\* loaded, and the luma kernel and the CFL kernel load the source row of the
\* written plane up to the last column before it.
C10_WholeRegisterStored ==
  kernel \in GrainKernels =>
    /\ \A r \in DOMAIN dest : \A c \in DOMAIN dest[r] :
         (c >= RoundUp8(PlaneWidth) \/ r >= y) => dest[r][c] = Untouched
    /\ \A r \in 0..(y - 1) : \A c \in PlaneWidth..(RoundUp8(PlaneWidth) - 1) :
         \A v \in CellValues(r, c) :
           /\ v # Untouched
           /\ v >= args.min_value
           /\ v <= args.max_value
    /\ loads.luma < RoundUp8(width)
    /\ loads.chroma < RoundUp8(PlaneWidth)
    /\ (y > 0 /\ PlaneWidth % 8 # 0) =>
         /\ kernel = "BlendNoiseWithImageLuma_SSE4_1" =>
              loads.luma = RoundUp8(width) - 1
         /\ kernel = "BlendNoiseWithImageChromaWithCfl_SSE4_1" =>
              loads.chroma = RoundUp8(PlaneWidth) - 1
         /\ kernel = "BlendNoiseWithImageChroma8bpp_SSE4_1" =>
              loads.chroma = PlaneWidth - 1

\* C10 witness: a finished luma plane of width 9..15 whose destination
\* columns between the width and 16 hold stored pixels and whose column 16
\* is unchanged, the source row having been loaded up to column 15.
C10_Witness ==
  /\ kernel = "BlendNoiseWithImageLuma_SSE4_1"
  /\ width > 8
  /\ width < 15
  /\ y = height
  /\ \A r \in 0..(height - 1) :
       /\ \A c \in width..15 : dest[r][c] # Untouched
       /\ dest[r][16] = Untouched
  /\ loads.luma = 15

\* C2: every sample a grain kernel has stored lies in [min_value, max_value],
\* where 0 <= min_value <= max_value <= 2^bitdepth - 1, and every sample
\* DistanceWeightedBlend has stored lies in [0, 255].
C2_OutputInRange ==
  /\ kernel \in GrainKernels =>
       /\ 0 <= args.min_value
       /\ args.min_value <= args.max_value
       /\ args.max_value <= (2 ^ args.bitdepth) - 1
       /\ \A r \in DOMAIN dest : \A c \in DOMAIN dest[r] :
            \A v \in CellValues(r, c) :
              v # Untouched => (v >= args.min_value /\ v <= args.max_value)
  /\ kernel = "DistanceWeightedBlend" =>
       \A r \in DOMAIN dest : \A c \in DOMAIN dest[r] :
         dest[r][c] # Untouched => (dest[r][c] >= 0 /\ dest[r][c] <= 255)

\* C2 witness: a finished multiplier-mode chroma plane with a narrowed pixel
\* range in which one sum of source and scaled noise exceeds max_value and
\* another falls below min_value, stored as max_value and min_value.
C2_Witness ==
  /\ kernel = "BlendNoiseWithImageChroma8bpp_SSE4_1"
  /\ y = PlaneHeight
  /\ args.min_value > 0
  /\ \E r \in 0..(y - 1) : \E c \in 0..(PlaneWidth - 1) :
        /\ dest[r][c] = args.max_value
        /\ source_plane_uv[r][c] > args.max_value
  /\ \E r \in 0..(y - 1) : \E c \in 0..(PlaneWidth - 1) :
        /\ dest[r][c] = args.min_value
        /\ source_plane_uv[r][c] < args.min_value


----------------------------------------------------------------------------
(* ScaleNoise applied to one register of noise and scale factors *)

\* Every noise value of the 10-bit grain range in all lanes, against every
\* window of 8 consecutive scale factors, for every scaling_shift.
InitScaleNoise ==
  \E n \in (0 - 512)..511, o \in 0..31, s \in 8..11 :
    /\ kernel = "ScaleNoise"
    /\ args = [scaling_shift |-> s]
    /\ noise_image = [r \in {0} |-> [c \in 0..7 |-> n]]
    /\ source_plane_y = [r \in {0} |-> [c \in 0..7 |-> 8 * o + c]]
    /\ scaling_lut = <<>>
    /\ width = 8
    /\ height = 1
    /\ y = 0
    /\ dest = BlankPlane(8, 1)
    /\ source_plane_uv = <<>>
    /\ prediction_0 = <<>>
    /\ prediction_1 = <<>>
    /\ weights = <<>>
    /\ loads = <<>>
    /\ DispatchIdle

\* A call of ScaleNoise(noise, scaling, derived_scaling_shift) with
\* derived_scaling_shift = 15 - scaling_shift.
ScaleNoiseCall ==
  /\ kernel = "ScaleNoise"
  /\ y = 0
  /\ dest' = [dest EXCEPT ![0] =
       StoreLanes(dest[0], 0,
                  ScaleNoise(LoadLanes(noise_image[0], 0, 8),
                             LoadLanes(source_plane_y[0], 0, 8),
                             15 - args.scaling_shift), 1, 8)]
  /\ y' = 1
  /\ UnchangedFnInputs

SpecScaleNoise == InitScaleNoise /\ [][ScaleNoiseCall]_vars

\* C14: for every scale factor in [0,255], scaling_shift in [8,11] and noise
\* in [-512,511], the shifted scale factor scale << (15 - scaling_shift) is
\* at most 32767 and ScaleNoise returns the rounded shift
\* (noise * scale + 2^(scaling_shift - 1)) >> scaling_shift of the exact
\* product.
C14_ScaleNoiseExact ==
  (kernel = "ScaleNoise") =>
    \A c \in 0..7 :
      LET scale == source_plane_y[0][c]
          noise == noise_image[0][c]
          s == args.scaling_shift
      IN /\ scale * (2 ^ (15 - s)) <= 32767
         /\ (y = 1) =>
              dest[0][c] = (noise * scale + 2 ^ (s - 1)) \div (2 ^ s)

C14_Witness ==
  /\ kernel = "ScaleNoise"
  /\ y = 1
  /\ args.scaling_shift = 8
  /\ noise_image[0][7] = 0 - 512
  /\ source_plane_y[0][7] = 255
  /\ dest[0][7] = 0 - 510


----------------------------------------------------------------------------
(* The last luma sample of an odd width in the chroma kernels *)

ChromaKernels ==
  {"BlendNoiseWithImageChromaWithCfl_SSE4_1",
   "BlendNoiseWithImageChroma8bpp_SSE4_1"}

\* C13: in both chroma kernels with subsampling_x = 1, for every luma width,
\* the average_luma of every valid chroma column is computed from luma
\* columns <= width - 1 only: a chroma column x with 2x + 1 = width is
\* handled by the right-edge section (x is not below safe_chroma_width), no
\* row step loads a luma column >= width into average_luma, and every valid
\* column of a finished row holds the value computed with luma[width - 1]
\* duplicated.
C13_LastLumaDuplicated ==
  (kernel \in ChromaKernels /\ args.subsampling_x = 1 /\ y > 0) =>
    /\ (width % 2 = 1) =>
         SafeWidth(ChromaWidth(args, width)) <= (width - 1) \div 2
    /\ loads.luma <= width - 1
    /\ \A r \in 0..(y - 1) : \A c \in 0..(PlaneWidth - 1) :
         dest[r][c] = ScalarGrain(r, c)


----------------------------------------------------------------------------
(* The initializers and the Dsp tables *)

\* At most MaxInitRuns initializer calls and MaxLookups lookups in a run.
MaxInitRuns == 3

MaxLookups == 1

\* A slot write that keeps an implementation already stored in the slot.
RegisterIfNull(table, bitdepth, slot, implementation) ==
  IF table[bitdepth][slot] = nullptr
  THEN [table EXCEPT ![bitdepth][slot] = implementation]
  ELSE table

\* dsp->slot = implementation, on the table GetWritableDspTable(bitdepth).
Register(table, bitdepth, slot, implementation) ==
  [table EXCEPT ![bitdepth][slot] = implementation]

Write(bitdepth, slot, implementation) ==
  [op |-> "Register", bitdepth |-> bitdepth, slot |-> slot,
   impl |-> implementation]

\* film_grain::low_bitdepth::Init8bpp
FilmGrainInit8bpp ==
  <<Write(8, "blend_noise_luma",
          "BlendNoiseWithImageLuma_SSE4_1<8, int8_t, uint8_t>"),
    Write(8, "blend_noise_chroma[0]", "BlendNoiseWithImageChroma8bpp_SSE4_1"),
    Write(8, "blend_noise_chroma[1]",
          "BlendNoiseWithImageChromaWithCfl_SSE4_1<8, int8_t, uint8_t>")>>

\* Init10bpp with the three assignments of Init8bpp.
FilmGrainInit10bppAllSlots ==
  <<Write(10, "blend_noise_luma",
          "BlendNoiseWithImageLuma_SSE4_1<10, int16_t, uint16_t>"),
    Write(10, "blend_noise_chroma[0]", "BlendNoiseWithImageChroma8bpp_SSE4_1"),
    Write(10, "blend_noise_chroma[1]",
          "BlendNoiseWithImageChromaWithCfl_SSE4_1<10, int16_t, uint16_t>")>>

\* film_grain::high_bitdepth::Init10bpp
FilmGrainInit10bpp ==
  <<Write(10, "blend_noise_luma",
          "BlendNoiseWithImageLuma_SSE4_1<10, int16_t, uint16_t>"),
    Write(10, "blend_noise_chroma[1]",
          "BlendNoiseWithImageChromaWithCfl_SSE4_1<10, int16_t, uint16_t>")>>

\* The slot writes of FilmGrainInit_SSE4_1() in build |p|: the body is empty
\* unless LIBGAV1_TARGETING_SSE4_1, and Init10bpp exists only when
\* LIBGAV1_MAX_BITDEPTH >= 10.
FilmGrainInit_SSE4_1_Writes(p) ==
  IF p.targeting_sse4_1
  THEN FilmGrainInit8bpp
       \o (IF p.max_bitdepth >= 10 THEN FilmGrainInit10bpp ELSE <<>>)
  ELSE <<>>

\* Init8bpp of distance_weighted_blend_neon.cc
DistanceWeightedBlendInit8bpp ==
  <<Write(8, "distance_weighted_blend", "DistanceWeightedBlend_NEON")>>

\* The slot writes of DistanceWeightedBlendInit_NEON() in build |p|: the body
\* is empty unless LIBGAV1_ENABLE_NEON.
DistanceWeightedBlendInit_NEON_Writes(p) ==
  IF p.enable_neon THEN DistanceWeightedBlendInit8bpp ELSE <<>>

\* The baseline initializers: a scalar implementation in every slot of every
\* table of the build.
BaselineWrites(p) ==
  LET of(bd) ==
        <<Write(bd, "blend_noise_luma", "BlendNoiseWithImageLuma_C"),
          Write(bd, "blend_noise_chroma[0]", "BlendNoiseWithImageChroma_C"),
          Write(bd, "blend_noise_chroma[1]",
                "BlendNoiseWithImageChromaWithCfl_C"),
          Write(bd, "distance_weighted_blend", "DistanceWeightedBlend_C")>>
  IN of(8) \o (IF p.max_bitdepth >= 10 THEN of(10) ELSE <<>>)

\* The table after the writes |ws|, in program order.
RECURSIVE RegisterAll(_, _)
RegisterAll(table, ws) ==
  IF ws = <<>> THEN table
  ELSE RegisterAll(Register(table, Head(ws).bitdepth, Head(ws).slot,
                            Head(ws).impl), Tail(ws))

Call(name) == [op |-> "Init", bitdepth |-> 0, slot |-> name, impl |-> ""]

\* One call of the initializer |name| making the writes |ws|.
RunInitializer(name, ws) ==
  /\ dsp' = RegisterAll(dsp, ws)
  /\ events' = events \o <<Call(name)>> \o ws

\* The entry of |slot| in the table of |bitdepth|, as a caller reads it.
Resolve(table, bitdepth, slot) == table[bitdepth][slot]

Count(log, kind) == Cardinality({i \in 1..Len(log) : log[i].op = kind})

Builds ==
  {[targeting_sse4_1 |-> t, enable_neon |-> n, max_bitdepth |-> b,
    cpu |-> {"SSE4_1", "NEON"}] : t \in BOOLEAN, n \in BOOLEAN, b \in Bitdepths}

\* No kernel call is in progress while the tables are set up.
KernelIdle ==
  /\ kernel = "none"
  /\ width = 0
  /\ height = 0
  /\ y = 0
  /\ dest = <<>>
  /\ prediction_0 = <<>>
  /\ prediction_1 = <<>>
  /\ weights = <<>>
  /\ args = IdleArgs
  /\ scaling_lut = <<>>
  /\ source_plane_y = <<>>
  /\ source_plane_uv = <<>>
  /\ noise_image = <<>>
  /\ loads = <<>>

UnchangedKernel ==
  UNCHANGED <<kernel, width, height, y, dest, prediction_0, prediction_1,
              weights, args, scaling_lut, source_plane_y, source_plane_uv,
              noise_image, loads>>

InitDispatch ==
  /\ KernelIdle
  /\ dsp = NullTable
  /\ events = <<>>
  /\ platform \in Builds
  /\ pc = "any"

\* The initializers are plain functions: callable in any order, any number
\* of times.
BaselineInit ==
  /\ pc = "any"
  /\ Count(events, "Init") < MaxInitRuns
  /\ RunInitializer("BaselineInit", BaselineWrites(platform))
  /\ UNCHANGED <<platform, pc>>
  /\ UnchangedKernel

FilmGrainInit_SSE4_1 ==
  /\ pc = "any"
  /\ Count(events, "Init") < MaxInitRuns
  /\ RunInitializer("FilmGrainInit_SSE4_1",
                    FilmGrainInit_SSE4_1_Writes(platform))
  /\ UNCHANGED <<platform, pc>>
  /\ UnchangedKernel

DistanceWeightedBlendInit_NEON ==
  /\ pc = "any"
  /\ Count(events, "Init") < MaxInitRuns
  /\ RunInitializer("DistanceWeightedBlendInit_NEON",
                    DistanceWeightedBlendInit_NEON_Writes(platform))
  /\ UNCHANGED <<platform, pc>>
  /\ UnchangedKernel

\* A caller reads one slot of one table.
Lookup ==
  /\ Count(events, "Resolve") < MaxLookups
  /\ \E bd \in Bitdepths, s \in Slots :
       events' = events \o <<[op |-> "Resolve", bitdepth |-> bd, slot |-> s,
                              impl |-> Resolve(dsp, bd, s)]>>
  /\ UNCHANGED <<dsp, platform, pc>>
  /\ UnchangedKernel

NextDispatch ==
  \/ BaselineInit
  \/ FilmGrainInit_SSE4_1
  \/ DistanceWeightedBlendInit_NEON
  \/ Lookup

SpecDispatch == InitDispatch /\ [][NextDispatch]_vars


----------------------------------------------------------------------------
(* Claims about the Dsp tables *)

\* The implementation of the last Register of |log| on the slot, nullptr
\* when the log holds none.
LastRegistered(log, bd, s) ==
  LET on == {i \in 1..Len(log) : /\ log[i].op = "Register"
                                 /\ log[i].bitdepth = bd
                                 /\ log[i].slot = s}
  IN IF on = {} THEN nullptr
     ELSE log[CHOOSE i \in on : \A j \in on : j <= i].impl

\* C11: after any sequence of initializer runs, every slot resolves to the
\* implementation of the most recent Register on that slot and to nullptr
\* when no Register was made on it, so an entry (a baseline entry included)
\* stays until a later write of the same slot; every lookup made so far
\* returned the most recent Register that preceded it.
C11_LastWriterWins ==
  (pc = "any") =>
    /\ \A bd \in Bitdepths, s \in Slots :
         Resolve(dsp, bd, s) = LastRegistered(events, bd, s)
    /\ \A i \in 1..Len(events) :
         (events[i].op = "Resolve") =>
           events[i].impl = LastRegistered(SubSeq(events, 1, i - 1),
                                           events[i].bitdepth, events[i].slot)

\* C11 witness: the baseline ran, then FilmGrainInit_SSE4_1; the 8-bit luma
\* slot resolves to the SSE4.1 kernel, the 10-bit blend_noise_chroma[0] and
\* distance_weighted_blend slots still to the baseline, and the lookup made
\* last returned the SSE4.1 kernel.
C11_Witness ==
  /\ pc = "any"
  /\ Len(events) > 2
  /\ events[1] = Call("BaselineInit")
  /\ Count(events, "Init") = 2
  /\ \E i \in 1..Len(events) : events[i] = Call("FilmGrainInit_SSE4_1")
  /\ dsp[8]["blend_noise_luma"]
       = "BlendNoiseWithImageLuma_SSE4_1<8, int8_t, uint8_t>"
  /\ dsp[10]["blend_noise_chroma[0]"] = "BlendNoiseWithImageChroma_C"
  /\ dsp[8]["distance_weighted_blend"] = "DistanceWeightedBlend_C"
  /\ events[Len(events)] =
       [op |-> "Resolve", bitdepth |-> 8, slot |-> "blend_noise_luma",
        impl |-> "BlendNoiseWithImageLuma_SSE4_1<8, int8_t, uint8_t>"]

\* The slots each initializer of the two files is to write, with the
\* implementation it is to store.
OwnSlots(name) ==
  IF name = "FilmGrainInit_SSE4_1"
  THEN {<<8, "blend_noise_luma">>, <<8, "blend_noise_chroma[0]">>,
        <<8, "blend_noise_chroma[1]">>, <<10, "blend_noise_luma">>,
        <<10, "blend_noise_chroma[1]">>}
  ELSE {<<8, "distance_weighted_blend">>}

OwnImplementation(bd, s) ==
  IF s = "distance_weighted_blend" THEN "DistanceWeightedBlend_NEON"
  ELSE IF s = "blend_noise_luma"
       THEN (IF bd = 8
             THEN "BlendNoiseWithImageLuma_SSE4_1<8, int8_t, uint8_t>"
             ELSE "BlendNoiseWithImageLuma_SSE4_1<10, int16_t, uint16_t>")
  ELSE IF s = "blend_noise_chroma[0]"
       THEN "BlendNoiseWithImageChroma8bpp_SSE4_1"
  ELSE (IF bd = 8
        THEN "BlendNoiseWithImageChromaWithCfl_SSE4_1<8, int8_t, uint8_t>"
        ELSE "BlendNoiseWithImageChromaWithCfl_SSE4_1<10, int16_t, uint16_t>")

\* The build compiles the whole body of the initializer.
BodyCompiled(name) ==
  IF name = "FilmGrainInit_SSE4_1"
  THEN platform.targeting_sse4_1 /\ platform.max_bitdepth >= 10
  ELSE platform.enable_neon

\* The step is a call of the initializer |name|.
CallOf(name) ==
  /\ Len(events') > Len(events)
  /\ events'[Len(events) + 1] = Call(name)

\* C15: a call of FilmGrainInit_SSE4_1 leaves every slot other than the
\* 8-bit blend_noise_luma, blend_noise_chroma[0], blend_noise_chroma[1] and
\* the 10-bit blend_noise_luma, blend_noise_chroma[1] unchanged (the 10-bit
\* blend_noise_chroma[0] keeps what it held), and a call of
\* DistanceWeightedBlendInit_NEON every slot other than the 8-bit
\* distance_weighted_blend; where the build compiles the initializer's body,
\* each of its own slots holds its SIMD implementation after the call.
C15_OwnSlotsOnly ==
  [][\A name \in {"FilmGrainInit_SSE4_1", "DistanceWeightedBlendInit_NEON"} :
       CallOf(name) =>
         /\ \A bd \in Bitdepths, s \in Slots :
              (<<bd, s>> \notin OwnSlots(name)) => dsp'[bd][s] = dsp[bd][s]
         /\ BodyCompiled(name) =>
              \A o \in OwnSlots(name) :
                dsp'[o[1]][o[2]] = OwnImplementation(o[1], o[2])]_vars

\* C15 witness: FilmGrainInit_SSE4_1 ran last, after the baseline and
\* DistanceWeightedBlendInit_NEON; its five slots hold the SSE4.1 kernels,
\* the 10-bit blend_noise_chroma[0] the baseline and the 8-bit
\* distance_weighted_blend the NEON kernel.
C15_Witness ==
  /\ pc = "any"
  /\ Len(events) > 5
  /\ events[Len(events) - 5] = Call("FilmGrainInit_SSE4_1")
  /\ \E i \in 1..Len(events) :
       events[i] = Call("DistanceWeightedBlendInit_NEON")
  /\ events[1] = Call("BaselineInit")
  /\ \A o \in OwnSlots("FilmGrainInit_SSE4_1") :
       dsp[o[1]][o[2]] = OwnImplementation(o[1], o[2])
  /\ dsp[10]["blend_noise_chroma[0]"] = "BlendNoiseWithImageChroma_C"
  /\ dsp[8]["distance_weighted_blend"] = "DistanceWeightedBlend_NEON"
  /\ dsp[10]["distance_weighted_blend"] = "DistanceWeightedBlend_C"


----------------------------------------------------------------------------
(* The startup sequence that calls the initializers *)

Capabilities == {{}, {"SSE4_1"}, {"NEON"}, {"SSE4_1", "NEON"}}

InitStartup ==
  /\ KernelIdle
  /\ dsp = NullTable
  /\ events = <<>>
  /\ \E b \in Builds, c \in Capabilities :
       platform = [b EXCEPT !.cpu = c]
  /\ pc = "baseline"

\* Lookups made while the initializers still run.
MayLookupAnytime(p) == TRUE

\* Kernel lookups start when the startup sequence has finished.
MayLookup(p) == p = "ready"

\* The baseline initializers register first.
DspInitBaseline ==
  /\ pc = "baseline"
  /\ RunInitializer("BaselineInit", BaselineWrites(platform))
  /\ pc' = "sse4_1"
  /\ UNCHANGED platform
  /\ UnchangedKernel

\* FilmGrainInit_SSE4_1 runs when the CPU probe reports SSE4.1.
DspInitSSE4_1 ==
  /\ pc = "sse4_1"
  /\ IF "SSE4_1" \in platform.cpu
     THEN RunInitializer("FilmGrainInit_SSE4_1",
                         FilmGrainInit_SSE4_1_Writes(platform))
     ELSE UNCHANGED <<dsp, events>>
  /\ pc' = "neon"
  /\ UNCHANGED platform
  /\ UnchangedKernel

\* DistanceWeightedBlendInit_NEON runs when the CPU probe reports NEON.
DspInitNEON ==
  /\ pc = "neon"
  /\ IF "NEON" \in platform.cpu
     THEN RunInitializer("DistanceWeightedBlendInit_NEON",
                         DistanceWeightedBlendInit_NEON_Writes(platform))
     ELSE UNCHANGED <<dsp, events>>
  /\ pc' = "ready"
  /\ UNCHANGED platform
  /\ UnchangedKernel

StartupLookup ==
  /\ MayLookup(pc)
  /\ Lookup

NextStartup ==
  \/ DspInitBaseline
  \/ DspInitSSE4_1
  \/ DspInitNEON
  \/ StartupLookup

SpecStartup == InitStartup /\ [][NextStartup]_vars

\* The slots of the tables the build has.
BuildSlots ==
  {<<bd, s>> \in Bitdepths \X Slots : bd <= platform.max_bitdepth}

Registers(log, bd, s) ==
  Cardinality({i \in 1..Len(log) : /\ log[i].op = "Register"
                                   /\ log[i].bitdepth = bd
                                   /\ log[i].slot = s})

\* No initializer call and no slot write follows a lookup.
WritesPrecedeLookups ==
  \A i \in 1..Len(events) : \A j \in (i + 1)..Len(events) :
    (events[i].op = "Resolve") => (events[j].op = "Resolve")

\* C12 as stated: all Register writes precede the first lookup, and at first
\* use every slot of the table has been populated exactly once.
C12_PopulatedExactlyOnce ==
  (pc # "any") =>
    /\ WritesPrecedeLookups
    /\ (pc = "ready") =>
         \A o \in BuildSlots : Registers(events, o[1], o[2]) = 1

\* C12 amended: all Register writes happen in the startup sequence, before
\* the first lookup; at first use every slot of the build's tables has been
\* written at least once (a slot a SIMD initializer overrides has been
\* written by the baseline as well) and holds an implementation; every
\* lookup made so far returned what the slot still holds.
C12_InitBeforeUse ==
  (pc # "any") =>
    /\ WritesPrecedeLookups
    /\ (pc = "ready") =>
         \A o \in BuildSlots :
           /\ Registers(events, o[1], o[2]) >= 1
           /\ Resolve(dsp, o[1], o[2]) # nullptr
    /\ \A i \in 1..Len(events) :
         (events[i].op = "Resolve") =>
           /\ events[i].impl = Resolve(dsp, events[i].bitdepth, events[i].slot)
           /\ (<<events[i].bitdepth, events[i].slot>> \in BuildSlots) =>
                events[i].impl # nullptr

\* C12 witness: the startup sequence has finished, the 8-bit
\* blend_noise_luma slot was written by the baseline and by
\* FilmGrainInit_SSE4_1, and a lookup of it returned the SSE4.1 kernel.
C12_Witness ==
  /\ pc = "ready"
  /\ Registers(events, 8, "blend_noise_luma") = 2
  /\ Registers(events, 10, "blend_noise_chroma[0]") = 1
  /\ events # <<>>
  /\ events[Len(events)] =
       [op |-> "Resolve", bitdepth |-> 8, slot |-> "blend_noise_luma",
        impl |-> "BlendNoiseWithImageLuma_SSE4_1<8, int8_t, uint8_t>"]

====
